---- MODULE Spec2Model ----
(***************************************************************************)
(* The geometry render sinks of gxml-web: JSONRenderEngine and             *)
(* BinaryRenderEngine (pre_render / create_poly / create_line / to_dict /  *)
(* to_bytes), with the binary wire format modelled byte by byte.           *)
(*                                                                         *)
(* Python values are tagged records.  A str is its sequence of code        *)
(* points, bytes are sequences of 0..255, a float is the exact rational    *)
(* num/den it holds (every float of the model is exactly representable as  *)
(* a double, or is n/255.0, whose double and float32 roundings agree with  *)
(* the roundings of the exact quotient for all n in 0..255).               *)
(***************************************************************************)
EXTENDS Integers, Sequences, FiniteSets, TLC

(* ------------------------- Python values ------------------------------ *)

None == [t |-> "None"]
Float(n, d) == [t |-> "float", num |-> n, den |-> d]
Str(cps) == [t |-> "str", cp |-> cps]
StrTimes(cps, n) == [t |-> "str", unit |-> cps, times |-> n]     \* cps * n
Tuple(xs) == [t |-> "tuple", items |-> xs]
List(xs) == [t |-> "list", items |-> xs]
PyInt(n) == [t |-> "int", val |-> n]
Dict(kv) == [t |-> "dict", items |-> kv]          \* kv: a function on the keys
Vec3(a, b, c) == [t |-> "Vec3", x |-> a, y |-> b, z |-> c]

(* The outcome of an expression: a value, or the exception it raises. *)
Ok(v) == [ok |-> TRUE, val |-> v]
Raise(e) == [ok |-> FALSE, exc |-> e]

(* F applied to the value of e: e is evaluated once, whatever the number *)
(* of times F uses it (a local name bound to a value).                 *)
Let(e, F(_)) == CHOOSE r \in {F(v) : v \in {e}} : TRUE

(* dict.get(key) with the default None; a dict is a function on its keys. *)
Get(d, k) == IF k \in DOMAIN d THEN d[k] ELSE None

(* The code points of a str. *)
RECURSIVE Times(_, _)
Times(unit, n) ==
    IF n = 0 THEN <<>>
    ELSE Let(Times(unit, n \div 2), LAMBDA h :
           IF n % 2 = 0 THEN h \o h ELSE h \o h \o unit)

CodePoints(s) == IF "cp" \in DOMAIN s THEN s.cp ELSE Times(s.unit, s.times)

(* Truthiness as `if v` / `a and b` / `a or b` test it. *)
Truthy(v) ==
    CASE v.t = "None" -> FALSE
      [] v.t = "str" -> CodePoints(v) # <<>>
      [] v.t \in {"tuple", "list"} -> Len(v.items) > 0
      [] v.t = "dict" -> DOMAIN v.items # {}
      [] v.t = "float" -> v.num # 0
      [] v.t = "int" -> v.val # 0
      [] OTHER -> TRUE

(* float(v): a number converts, None and containers raise TypeError, a *)
(* str that is no numeric literal raises ValueError.                   *)
PyFloat(v) ==
    CASE v.t = "float" -> Ok(v)
      [] v.t = "int" -> Ok(Float(v.val, 1))
      [] v.t = "str" -> Raise("ValueError")
      [] OTHER -> Raise("TypeError")

(* --------------------------- strings ---------------------------------- *)

(* str.encode('utf-8') of one code point. *)
Utf8Char(c) ==
    IF c < 128 THEN <<c>>
    ELSE IF c < 2048 THEN <<192 + (c \div 64), 128 + (c % 64)>>
    ELSE IF c < 65536
         THEN <<224 + (c \div 4096), 128 + ((c \div 64) % 64), 128 + (c % 64)>>
    ELSE <<240 + (c \div 262144), 128 + ((c \div 4096) % 64),
           128 + ((c \div 64) % 64), 128 + (c % 64)>>

RECURSIVE Utf8Seq(_)
Utf8Seq(s) == IF s = <<>> THEN <<>> ELSE Utf8Char(Head(s)) \o Utf8Seq(Tail(s))

(* str.encode('utf-8'): an all-ASCII string encodes to its own code points. *)
Utf8Encode(s) == IF \A i \in 1..Len(s) : s[i] < 128 THEN s ELSE Utf8Seq(s)

(* The value of one hexadecimal digit, -1 for any other character. *)
HexVal(c) ==
    IF c >= 48 /\ c <= 57 THEN c - 48
    ELSE IF c >= 97 /\ c <= 102 THEN c - 87
    ELSE IF c >= 65 /\ c <= 70 THEN c - 55
    ELSE -1

(* int(two_chars, 16). *)
Int16(s) ==
    IF HexVal(s[1]) < 0 \/ HexVal(s[2]) < 0 THEN Raise("ValueError")
    ELSE Ok(16 * HexVal(s[1]) + HexVal(s[2]))

(* str.lstrip('#'): every leading '#' is removed. *)
RECURSIVE LStripHash(_)
LStripHash(s) ==
    IF s # <<>> /\ Head(s) = 35 THEN LStripHash(Tail(s)) ELSE s

(* ------------------------ IEEE-754 single ----------------------------- *)

Abs(n) == IF n < 0 THEN -n ELSE n

RECURSIVE FloorLog2(_)
FloorLog2(n) == IF n < 2 THEN 0 ELSE 1 + FloorLog2(n \div 2)

(* k more quotient bits of r/b appended to q: <<quotient, remainder>>. *)
RECURSIVE DivBits(_, _, _, _)
DivBits(q, r, b, k) ==
    IF k = 0 THEN <<q, r>>
    ELSE IF 2 * r >= b THEN DivBits(2 * q + 1, 2 * r - b, b, k - 1)
    ELSE DivBits(2 * q, 2 * r, b, k - 1)

(* For 0 < a < b: the k >= 1 with 2^-k <= a/b < 2^-(k-1). *)
RECURSIVE LeadShift(_, _)
LeadShift(a, b) == IF 2 * a >= b THEN 1 ELSE 1 + LeadShift(2 * a, b)

(* The 24-bit significand of |x| before rounding: its exponent e, the      *)
(* truncated significand q (2^23 <= q < 2^24), whether the discarded part  *)
(* is above, at or below one half unit in the last place, and whether      *)
(* anything was discarded.                                                 *)
Discarded(r2, b) == IF r2 > b THEN 1 ELSE IF r2 = b THEN 0 ELSE -1

Significand(x) ==
    LET a == Abs(x.num)
        b == x.den
        I == a \div b
        R == a % b
    IN  IF I >= 1
        THEN Let(FloorLog2(I), LAMBDA e :
               IF e >= 24
               THEN LET sh == e - 23
                        rem == I % (2 ^ sh)
                        half == 2 ^ (sh - 1)
                    IN  [e |-> e, q |-> I \div (2 ^ sh),
                         cmp |-> IF rem > half \/ (rem = half /\ R > 0) THEN 1
                                 ELSE IF rem = half THEN 0 ELSE -1,
                         inexact |-> rem # 0 \/ R # 0]
               ELSE Let(DivBits(I, R, b, 23 - e), LAMBDA d :
                      [e |-> e, q |-> d[1], cmp |-> Discarded(2 * d[2], b),
                       inexact |-> d[2] # 0]))
        ELSE Let(LeadShift(a, b), LAMBDA k :
               Let(DivBits(0, a, b, k + 23), LAMBDA d :
                 [e |-> -k, q |-> d[1], cmp |-> Discarded(2 * d[2], b),
                  inexact |-> d[2] # 0]))

(* The float32 nearest to x, ties to even, as its three fields. *)
RN32(x) ==
    IF x.num = 0 THEN [sign |-> 0, exp |-> 0, frac |-> 0]
    ELSE Let(Significand(x), LAMBDA s :
           LET up == s.cmp = 1 \/ (s.cmp = 0 /\ s.q % 2 = 1)
               m == IF up THEN s.q + 1 ELSE s.q
               carry == m = 2 ^ 24
           IN  [sign |-> IF x.num < 0 THEN 1 ELSE 0,
                exp |-> (IF carry THEN s.e + 1 ELSE s.e) + 127,
                frac |-> IF carry THEN 0 ELSE m - 2 ^ 23])

(* Whether x is a float32 already (float32 conversion loses nothing). *)
Exact32(x) == x.num = 0 \/ ~Significand(x).inexact

(* ---------------------------- struct.pack ----------------------------- *)

(* '<f': the four bytes of the float32, least significant first. *)
PackF32(x) ==
    Let(RN32(x), LAMBDA f :
      <<f.frac % 256, (f.frac \div 256) % 256,
        (f.exp % 2) * 128 + (f.frac \div 65536),
        f.sign * 128 + (f.exp \div 2)>>)

(* '<I' *)
PackU32(n) ==
    <<n % 256, (n \div 256) % 256, (n \div 65536) % 256, (n \div 16777216) % 256>>

(* '<H'; the caller has checked the range. *)
PackU16(n) == <<n % 256, (n \div 256) % 256>>

RECURSIVE PackFloats(_)
PackFloats(xs) ==
    IF xs = <<>> THEN <<>> ELSE PackF32(Head(xs)) \o PackFloats(Tail(xs))

RECURSIVE Zeros(_)
Zeros(n) == IF n = 0 THEN <<>> ELSE <<0>> \o Zeros(n - 1)

(* ----------------------- float arithmetic ----------------------------- *)

RECURSIVE Gcd(_, _)
Gcd(a, b) == IF b = 0 THEN a ELSE Gcd(b, a % b)

(* The float num/den in lowest terms; den = 0 is an infinity. *)
Norm(n, d) ==
    IF d = 0 THEN Float(IF n < 0 THEN -1 ELSE 1, 0)
    ELSE Let(Gcd(Abs(n), d), LAMBDA g : Float(n \div g, d \div g))

PosInf == Float(1, 0)
NegInf == Float(-1, 0)
Zero == Float(0, 1)

FloatLT(a, b) == a.num * b.den < b.num * a.den
FloatAdd(a, b) == Norm(a.num * b.den + b.num * a.den, a.den * b.den)
FloatSub(a, b) == Norm(a.num * b.den - b.num * a.den, a.den * b.den)
FloatHalf(a) == Norm(a.num, 2 * a.den)

(* ------------------------ shared expressions -------------------------- *)

(* p[i] (i counted from 0): only tuples and lists are subscriptable. *)
Subscript(p, i) ==
    IF p.t \in {"tuple", "list"}
    THEN IF i < Len(p.items) THEN Ok(p.items[i + 1]) ELSE Raise("IndexError")
    ELSE Raise("TypeError")

(* float(p[i]) *)
FloatAt(p, i) ==
    LET e == Subscript(p, i) IN IF e.ok THEN PyFloat(e.val) ELSE e

(* float(p[0]), float(p[1]), float(p[2]) if len(p) > 2 else 0.0            *)
(* evaluated left to right; the first exception ends the evaluation.       *)
XYZ(p) ==
    LET fx == FloatAt(p, 0)
        fy == FloatAt(p, 1)
        fz == IF Len(p.items) > 2 THEN FloatAt(p, 2) ELSE Ok(Zero)
    IN  IF ~fx.ok THEN fx
        ELSE IF ~fy.ok THEN fy
        ELSE IF ~fz.ok THEN fz
        ELSE Ok(<<fx.val, fy.val, fz.val>>)

(* float(p[0]), float(p[1]), 0.0 *)
XY0(p) ==
    LET fx == FloatAt(p, 0)
        fy == FloatAt(p, 1)
    IN  IF ~fx.ok THEN fx
        ELSE IF ~fy.ok THEN fy
        ELSE Ok(<<fx.val, fy.val, Zero>>)

(* float(p.x), float(p.y), float(p.z) *)
XYZAttrs(p) ==
    LET fx == PyFloat(p.x)
        fy == PyFloat(p.y)
        fz == PyFloat(p.z)
    IN  IF ~fx.ok THEN fx
        ELSE IF ~fy.ok THEN fy
        ELSE IF ~fz.ok THEN fz
        ELSE Ok(<<fx.val, fy.val, fz.val>>)

(* One pass of the point loop of create_poly: the fast path, and on a     *)
(* TypeError or KeyError the slow path (named fields, else x, y and 0.0). *)
NormalizePoint(p) ==
    Let(XYZ(p), LAMBDA fast :
      IF fast.ok THEN fast
      ELSE IF fast.exc \in {"TypeError", "KeyError"}
      THEN IF p.t = "Vec3" THEN XYZAttrs(p) ELSE XY0(p)
      ELSE fast)

(* The whole point loop: the normalised points, or the first exception. *)
RECURSIVE NormalizePoints(_)
NormalizePoints(points) ==
    IF points = <<>> THEN Ok(<<>>)
    ELSE Let(NormalizePoint(Head(points)), LAMBDA h :
           IF ~h.ok THEN h
           ELSE Let(NormalizePoints(Tail(points)), LAMBDA r :
                  IF r.ok THEN Ok(<<h.val>> \o r.val) ELSE r))

(* The value transform_point returns for a local point, or what it raises: *)
(* the method is the pair of its outcomes for (0, 0.5, 0) and (1, 0.5, 0). *)
TransformStart(element) == element.transform_point.start
TransformEnd(element) == element.transform_point.end

Palette ==
    << Str(<<35, 101, 57, 52, 53, 54, 48>>),   \* #e94560
       Str(<<35, 48, 102, 51, 52, 54, 48>>),   \* #0f3460
       Str(<<35, 49, 54, 50, 49, 51, 101>>),   \* #16213e
       Str(<<35, 53, 51, 51, 52, 56, 51>>),    \* #533483
       Str(<<35, 49, 97, 49, 97, 50, 101>>),   \* #1a1a2e
       Str(<<35, 52, 97, 52, 101, 54, 57>>),   \* #4a4e69
       Str(<<35, 57, 97, 56, 99, 57, 56>>),    \* #9a8c98
       Str(<<35, 99, 57, 97, 100, 97, 55>>),   \* #c9ada7
       Str(<<35, 50, 50, 50, 50, 51, 98>>),    \* #22223b
       Str(<<35, 102, 50, 101, 57, 101, 52>>), \* #f2e9e4
       Str(<<35, 52, 51, 54, 49, 101, 101>>),  \* #4361ee
       Str(<<35, 55, 50, 48, 57, 98, 55>>) >>  \* #7209b7

EmptyDict == [k \in {} |-> None]
Put(d, k, v) == [a \in DOMAIN d \cup {k} |-> IF a = k THEN v ELSE d[a]]

(* hasattr(element, 'color') and element.color *)
HasColor(element) == "color" \in DOMAIN element /\ Truthy(element.color)

(* ------------------------- JSONRenderEngine --------------------------- *)

JSON_init ==
    [panels |-> <<>>, lines |-> <<>>, current_element |-> None,
     panel_data |-> EmptyDict, color_index |-> 0]

(* _get_next_color that clamps at the last entry instead of wrapping. *)
JSON_get_next_color_clamped(self) ==
    << Palette[IF self.color_index < Len(Palette)
               THEN self.color_index + 1 ELSE Len(Palette)],
       [self EXCEPT !.color_index = self.color_index + 1] >>

(* _get_next_color: <<the colour, the engine after the call>>. *)
JSON_get_next_color(self) ==
    << Palette[(self.color_index % Len(Palette)) + 1],
       [self EXCEPT !.color_index = self.color_index + 1] >>

(* The try block of pre_render: every exception leaves what was stored. *)
JSON_endpoints(pd, element) ==
    LET s == TransformStart(element)
        e == TransformEnd(element)
    IN  IF ~s.ok \/ ~e.ok THEN pd
        ELSE LET sp == XYZ(s.val)
             IN  IF ~sp.ok THEN pd
        ELSE LET pdS == Put(pd, "startPoint", List(sp.val))
                 ep == XYZ(e.val)
             IN  IF ~ep.ok THEN pdS
        ELSE LET pdE == Put(pdS, "endPoint", List(ep.val))
             IN  IF "rotation" \in DOMAIN element
                 THEN LET r0 == FloatAt(element.rotation, 0)
                          r1 == FloatAt(element.rotation, 1)
                          r2 == FloatAt(element.rotation, 2)
                      IN  IF r0.ok /\ r1.ok /\ r2.ok
                          THEN Put(pdE, "rotation", List(<<r0.val, r1.val, r2.val>>))
                          ELSE pdE
                 ELSE pdE

(* pre_render that takes a palette colour on every call and drops it    *)
(* when the element has its own.                                        *)
JSON_pre_render_advancing(self, element) ==
    LET pd0 == [id |-> Get(element, "id"), subId |-> Get(element, "subId")]
        nc == JSON_get_next_color(self)
        pd1 == Put(pd0, "color", IF HasColor(element) THEN element.color ELSE nc[1])
        pd2 == IF "transform_point" \in DOMAIN element
               THEN JSON_endpoints(pd1, element) ELSE pd1
    IN  [nc[2] EXCEPT !.current_element = element, !.panel_data = pd2]

JSON_pre_render(self, element) ==
    LET pd0 == [id |-> Get(element, "id"), subId |-> Get(element, "subId")]
        nc == JSON_get_next_color(self)
        pd1 == Put(pd0, "color", IF HasColor(element) THEN element.color ELSE nc[1])
        s1 == IF HasColor(element) THEN self ELSE nc[2]
        pd2 == IF "transform_point" \in DOMAIN element
               THEN JSON_endpoints(pd1, element) ELSE pd1
    IN  [s1 EXCEPT !.current_element = element, !.panel_data = pd2]

(* Bounds tracked with `if x < min ... elif x > max ...`. *)
Widen_elif(b, p) ==
    [lo |-> [i \in 1..3 |-> IF FloatLT(p[i], b.lo[i]) THEN p[i] ELSE b.lo[i]],
     hi |-> [i \in 1..3 |-> IF ~FloatLT(p[i], b.lo[i]) /\ FloatLT(b.hi[i], p[i])
                             THEN p[i] ELSE b.hi[i]]]

(* The bounds tracked inline by the point loop, from +-inf. *)
Widen(b, p) ==
    [lo |-> [i \in 1..3 |-> IF FloatLT(p[i], b.lo[i]) THEN p[i] ELSE b.lo[i]],
     hi |-> [i \in 1..3 |-> IF FloatLT(b.hi[i], p[i]) THEN p[i] ELSE b.hi[i]]]

RECURSIVE Bounds(_, _)
Bounds(pts, b) ==
    IF pts = <<>> THEN b
    ELSE Let(Widen(b, Head(pts)), LAMBDA b1 : Bounds(Tail(pts), b1))

JSON_panel_info(self, id, pts, geoKey, b) ==
    [id |-> id, points |-> pts,
     position |-> IF pts # <<>>
                  THEN [i \in 1..3 |-> FloatHalf(FloatAdd(b.lo[i], b.hi[i]))]
                  ELSE <<PyInt(0), PyInt(0), PyInt(0)>>,
     size |-> IF pts # <<>>
              THEN [i \in 1..3 |-> FloatSub(b.hi[i], b.lo[i])]
              ELSE <<PyInt(0), PyInt(0), PyInt(0)>>,
     color |-> Get(self.panel_data, "color"),
     geoKey |-> geoKey,
     startPoint |-> Get(self.panel_data, "startPoint"),
     endPoint |-> Get(self.panel_data, "endPoint"),
     rotation |-> Get(self.panel_data, "rotation")]

(* create_poly that skips a polygon whose id is already in the list. *)
JSON_create_poly_dedup(self, id, points, geoKey) ==
    Let(NormalizePoints(points), LAMBDA n :
      IF ~n.ok THEN <<self, n.exc>>
      ELSE IF \E i \in 1..Len(self.panels) : self.panels[i].id = id
      THEN <<self, "">>
      ELSE Let(Bounds(n.val, [lo |-> <<PosInf, PosInf, PosInf>>,
                              hi |-> <<NegInf, NegInf, NegInf>>]), LAMBDA b :
             <<[self EXCEPT !.panels =
                   Append(self.panels, JSON_panel_info(self, id, n.val, geoKey, b))],
               "">>))

(* create_poly: <<the engine after the call, the exception or "">>. *)
JSON_create_poly(self, id, points, geoKey) ==
    Let(NormalizePoints(points), LAMBDA n :
      IF ~n.ok THEN <<self, n.exc>>
      ELSE Let(Bounds(n.val, [lo |-> <<PosInf, PosInf, PosInf>>,
                              hi |-> <<NegInf, NegInf, NegInf>>]), LAMBDA b :
             <<[self EXCEPT !.panels =
                   Append(self.panels, JSON_panel_info(self, id, n.val, geoKey, b))],
               "">>))

(* One pass of the point loop of create_line. *)
LinePoint(p) == IF p.t \in {"tuple", "list"} THEN XYZ(p) ELSE XY0(p)

RECURSIVE LinePoints(_)
LinePoints(points) ==
    IF points = <<>> THEN Ok(<<>>)
    ELSE Let(LinePoint(Head(points)), LAMBDA h :
           IF ~h.ok THEN h
           ELSE Let(LinePoints(Tail(points)), LAMBDA r :
                  IF r.ok THEN Ok(<<h.val>> \o r.val) ELSE r))

JSON_create_line(self, id, points, geoKey) ==
    Let(LinePoints(points), LAMBDA n :
      IF ~n.ok THEN <<self, n.exc>>
      ELSE <<[self EXCEPT !.lines =
                 Append(self.lines, [id |-> id, points |-> n.val, geoKey |-> geoKey])],
             "">>)

(* to_dict returns the two lists themselves, not copies: the document     *)
(* holds references, read through JSON_view.                              *)
JSON_to_dict(self) == [panels |-> "self.panels", lines |-> "self.lines"]
JSON_view(self, doc) ==
    [panels |-> IF doc.panels = "self.panels" THEN self.panels ELSE doc.panels,
     lines |-> IF doc.lines = "self.lines" THEN self.lines ELSE doc.lines]

(* ------------------------ BinaryRenderEngine -------------------------- *)

MaxU16 == 65535

(* hex_to_rgb: three floats n/255.0, the default gray when the stripped  *)
(* string has not six characters, ValueError on a non-hex pair.          *)
hex_to_rgb(hex_color) ==
    IF hex_color.t # "str" THEN Raise("AttributeError")
    ELSE LET h == LStripHash(CodePoints(hex_color))
         IN  IF Len(h) = 6
             THEN LET r == Int16(SubSeq(h, 1, 2))
                      g == Int16(SubSeq(h, 3, 4))
                      b == Int16(SubSeq(h, 5, 6))
                  IN  IF ~r.ok THEN r
                      ELSE IF ~g.ok THEN g
                      ELSE IF ~b.ok THEN b
                      ELSE Ok(<<Norm(r.val, 255), Norm(g.val, 255), Norm(b.val, 255)>>)
             ELSE Ok(<<Float(1, 2), Float(1, 2), Float(1, 2)>>)

Binary_init ==
    [panels |-> <<>>, current_element |-> None,
     panel_data |-> EmptyDict, color_index |-> 0]

Binary_get_next_color(self) ==
    << Palette[(self.color_index % Len(Palette)) + 1],
       [self EXCEPT !.color_index = self.color_index + 1] >>

(* The try block of pre_render. *)
Binary_endpoints(pd, element) ==
    LET s == TransformStart(element)
        e == TransformEnd(element)
    IN  IF ~s.ok \/ ~e.ok THEN pd
        ELSE LET sp == XYZ(s.val)
             IN  IF ~sp.ok THEN pd
        ELSE LET pdS == Put(pd, "startPoint", Tuple(sp.val))
                 ep == XYZ(e.val)
             IN  IF ~ep.ok THEN pdS
        ELSE Put(pdS, "endPoint", Tuple(ep.val))

(* pre_render that keeps the endpoints of the previous element. *)
Binary_pre_render_keeping(self, element) ==
    LET eid == Get(element, "id")
        pd0 == [id |-> IF Truthy(eid) THEN eid ELSE Str(<<>>),
                startPoint |-> Get(self.panel_data, "startPoint"),
                endPoint |-> Get(self.panel_data, "endPoint")]
        nc == Binary_get_next_color(self)
        pd1 == Put(pd0, "color", IF HasColor(element) THEN element.color ELSE nc[1])
        s1 == IF HasColor(element) THEN self ELSE nc[2]
        pd2 == IF "transform_point" \in DOMAIN element
               THEN Binary_endpoints(pd1, element) ELSE pd1
    IN  [s1 EXCEPT !.current_element = element, !.panel_data = pd2]

Binary_pre_render(self, element) ==
    LET eid == Get(element, "id")
        pd0 == [id |-> IF Truthy(eid) THEN eid ELSE Str(<<>>),
                startPoint |-> None, endPoint |-> None]
        nc == Binary_get_next_color(self)
        pd1 == Put(pd0, "color", IF HasColor(element) THEN element.color ELSE nc[1])
        s1 == IF HasColor(element) THEN self ELSE nc[2]
        pd2 == IF "transform_point" \in DOMAIN element
               THEN Binary_endpoints(pd1, element) ELSE pd1
    IN  [s1 EXCEPT !.current_element = element, !.panel_data = pd2]

RECURSIVE Flatten(_)
Flatten(pts) == IF pts = <<>> THEN <<>> ELSE Head(pts) \o Flatten(Tail(pts))

(* create_poly that takes a fresh palette colour for each polygon. *)
Binary_create_poly_recolor(self, id, points, geoKey) ==
    Let(NormalizePoints(points), LAMBDA n :
      IF ~n.ok THEN <<self, n.exc>>
      ELSE Let(hex_to_rgb(Binary_get_next_color(self)[1]), LAMBDA color_rgb :
             <<[self EXCEPT !.color_index = self.color_index + 1,
                            !.panels = Append(self.panels,
                        [panel_id |-> IF Truthy(id) THEN id ELSE Str(<<>>),
                         color_rgb |-> color_rgb.val,
                         vertices_flat |-> Flatten(n.val),
                         start_point |-> Get(self.panel_data, "startPoint"),
                         end_point |-> Get(self.panel_data, "endPoint")])],
               "">>))

(* create_poly: <<the engine after the call, the exception or "">>. *)
Binary_create_poly(self, id, points, geoKey) ==
    Let(NormalizePoints(points), LAMBDA n :
      IF ~n.ok THEN <<self, n.exc>>
      ELSE Let(hex_to_rgb(IF "color" \in DOMAIN self.panel_data
                          THEN self.panel_data.color
                          ELSE Str(<<35, 56, 56, 56, 56, 56, 56>>)),    \* '#888888'
               LAMBDA color_rgb :
             IF ~color_rgb.ok THEN <<self, color_rgb.exc>>
             ELSE <<[self EXCEPT !.panels = Append(self.panels,
                        [panel_id |-> IF Truthy(id) THEN id ELSE Str(<<>>),
                         color_rgb |-> color_rgb.val,
                         vertices_flat |-> Flatten(n.val),
                         start_point |-> Get(self.panel_data, "startPoint"),
                         end_point |-> Get(self.panel_data, "endPoint")])],
                    "">>))

(* create_line: pass. *)
Binary_create_line(self, id, points, geoKey) == <<self, "">>

(* struct.pack('<HH3fB3x', ...): 'H' takes 0..65535 only; the exception  *)
(* carries the message of the struct module and nothing else.            *)
Pack_HH3fB3x(id_len, vertex_count, r, g, b, has_endpoints) ==
    IF id_len > MaxU16 \/ vertex_count > MaxU16
    THEN Raise([type |-> "struct.error",
                args |-> <<"ushort format requires 0 <= number <= 65535">>])
    ELSE Ok(PackU16(id_len) \o PackU16(vertex_count) \o PackF32(r) \o PackF32(g)
            \o PackF32(b) \o <<has_endpoints>> \o Zeros(3))

(* The parts one pass of the panel loop appends, each with the name of   *)
(* the statement that appends it, or the exception the pass raises.      *)
PanelPartsPadded(panel, id_bytes, has_endpoints, padding_needed) ==
    Let(Pack_HH3fB3x(Len(id_bytes), Len(panel.vertices_flat) \div 3,
                     panel.color_rgb[1], panel.color_rgb[2], panel.color_rgb[3],
                     has_endpoints), LAMBDA panel_header :
          IF ~panel_header.ok THEN panel_header
          ELSE Ok(<<[part |-> "panel_header", bytes |-> panel_header.val]>>
                  \o (IF has_endpoints # 0
                      THEN <<[part |-> "endpoints",
                              bytes |-> PackFloats(panel.start_point.items
                                                   \o panel.end_point.items)]>>
                      ELSE <<>>)
                  \o <<[part |-> "id_bytes", bytes |-> id_bytes]>>
                  \o (IF padding_needed # 0
                      THEN <<[part |-> "padding", bytes |-> Zeros(padding_needed)]>>
                      ELSE <<>>)
                  \o <<[part |-> "vertices_packed",
                        bytes |-> PackFloats(panel.vertices_flat)]>>))

(* A pass that pads an id of aligned length with four bytes. *)
PanelPartsOf_pad4(panel, id_bytes, has_endpoints) ==
    PanelPartsPadded(panel, id_bytes, has_endpoints, 4 - (Len(id_bytes) % 4))

(* A pass that writes the id without padding. *)
PanelPartsOf_unpadded(panel, id_bytes, has_endpoints) ==
    PanelPartsPadded(panel, id_bytes, has_endpoints, 0)

(* padding_needed = (4 - (len(id_bytes) % 4)) % 4 *)
PanelPartsOf(panel, id_bytes, has_endpoints) ==
    PanelPartsPadded(panel, id_bytes, has_endpoints, (4 - (Len(id_bytes) % 4)) % 4)

PanelParts(panel) ==
    IF panel.panel_id.t # "str"
    THEN Raise([type |-> "AttributeError", args |-> <<"encode">>])
    ELSE Let(Utf8Encode(CodePoints(panel.panel_id)), LAMBDA id_bytes :
           PanelPartsOf(panel, id_bytes,
                        IF Truthy(panel.start_point) /\ Truthy(panel.end_point)
                        THEN 1 ELSE 0))

RECURSIVE PanelLoop(_)
PanelLoop(panels) ==
    IF panels = <<>> THEN Ok(<<>>)
    ELSE Let(PanelParts(Head(panels)), LAMBDA h :
           IF ~h.ok THEN h
           ELSE Let(PanelLoop(Tail(panels)), LAMBDA r :
                  IF r.ok THEN Ok(h.val \o r.val) ELSE r))

RECURSIVE TotalVertices(_)
TotalVertices(panels) ==
    IF panels = <<>> THEN 0
    ELSE (Len(Head(panels).vertices_flat) \div 3) + TotalVertices(Tail(panels))

(* to_bytes writing version 1 into the header. *)
Binary_parts_version1(self) ==
    Let(PanelLoop(self.panels), LAMBDA body :
      IF ~body.ok THEN body
      ELSE Ok(<<[part |-> "header",
                 bytes |-> <<71, 88, 77, 76>> \o PackU32(1)
                           \o PackU32(Len(self.panels))
                           \o PackU32(TotalVertices(self.panels))]>> \o body.val))

(* The list `parts` when to_bytes reaches its return, or the exception. *)
Binary_parts(self) ==
    Let(PanelLoop(self.panels), LAMBDA body :
      IF ~body.ok THEN body
      ELSE Ok(<<[part |-> "header",
                 bytes |-> <<71, 88, 77, 76>> \o PackU32(2)
                           \o PackU32(Len(self.panels))
                           \o PackU32(TotalVertices(self.panels))]>> \o body.val))

RECURSIVE JoinParts(_)
JoinParts(parts) ==
    IF parts = <<>> THEN <<>> ELSE Head(parts).bytes \o JoinParts(Tail(parts))

(* to_bytes: b''.join(parts), or the exception: nothing is returned then. *)
Binary_to_bytes(self) ==
    Let(Binary_parts(self), LAMBDA parts :
      IF parts.ok THEN Ok(JoinParts(parts.val)) ELSE parts)

(* f'{int(c*255):02x}' for c = n/255.0; int(n/255.0*255) = n for n in 0..255, *)
(* and int(0.5*255) = 127.                                                   *)
HexDigit(d) == IF d < 10 THEN 48 + d ELSE 87 + d
Hex02(c) ==
    LET v == (c.num * 255) \div c.den IN <<HexDigit(v \div 16), HexDigit(v % 16)>>

RECURSIVE Triples(_)
Triples(flat) ==
    IF flat = <<>> THEN <<>>
    ELSE <<SubSeq(flat, 1, 3)>> \o Triples(SubSeq(flat, 4, Len(flat)))

Binary_panel_dict(panel) ==
    LET d0 == [id |-> panel.panel_id, points |-> Triples(panel.vertices_flat),
               color |-> Str(<<35>> \o Hex02(panel.color_rgb[1])
                             \o Hex02(panel.color_rgb[2]) \o Hex02(panel.color_rgb[3]))]
        d1 == IF Truthy(panel.start_point)
              THEN Put(d0, "startPoint", List(panel.start_point.items)) ELSE d0
    IN  IF Truthy(panel.end_point)
        THEN Put(d1, "endPoint", List(panel.end_point.items)) ELSE d1

(* to_dict of the binary engine builds new lists. *)
Binary_to_dict(self) ==
    [panels |-> [i \in 1..Len(self.panels) |-> Binary_panel_dict(self.panels[i])],
     lines |-> <<>>]

(* ------------------------- timing_utils ------------------------------- *)

(* The flat key and the raw stage it is read from, in the order of the   *)
(* dict literal.                                                         *)
StageTable ==
    << <<"parse", "parse">>, <<"measure", "measure_pass">>,
       <<"prelayout", "pre_layout_pass">>, <<"layout", "layout_pass">>,
       <<"postlayout", "post_layout_pass">>, <<"render", "render">>,
       <<"intersection", "intersection_solver">>, <<"face", "face_solver">>,
       <<"geometry", "geometry_builder">>, <<"fastmesh", "fast_mesh_builder">>,
       <<"serialize", "serialize">> >>

(* ms(name): profile_results.get(name, {}).get('total_ms', 0.0) *)
ms(profile, name) ==
    LET stage == IF name \in DOMAIN profile.items THEN profile.items[name]
                 ELSE EmptyDict
    IN  IF "total_ms" \in DOMAIN stage THEN stage.total_ms ELSE Zero

(* A dict literal that reads face from the intersection solver's stage. *)
format_timings_for_web_copied(profile) ==
    IF ~Truthy(profile) THEN Dict(EmptyDict)
    ELSE LET raw(key) == IF key = "face" THEN "intersection_solver"
                         ELSE (CHOOSE row \in {StageTable[i] : i \in 1..Len(StageTable)} :
                                  row[1] = key)[2]
         IN  Dict([key \in {StageTable[i][1] : i \in 1..Len(StageTable)} \cup {"markers"}
                     |-> IF key = "markers" THEN profile ELSE ms(profile, raw(key))])

format_timings_for_web(profile) ==
    IF ~Truthy(profile) THEN Dict(EmptyDict)
    ELSE LET raw(key) == (CHOOSE row \in {StageTable[i] : i \in 1..Len(StageTable)} :
                             row[1] = key)[2]
         IN  Dict([key \in {StageTable[i][1] : i \in 1..Len(StageTable)} \cup {"markers"}
                     |-> IF key = "markers" THEN profile ELSE ms(profile, raw(key))])

(* --------------------- a reader of wire format v2 --------------------- *)

U16At(buf, off) == buf[off + 1] + 256 * buf[off + 2]
U32At(buf, off) ==
    buf[off + 1] + 256 * buf[off + 2] + 65536 * buf[off + 3] + 16777216 * buf[off + 4]

(* The float32 stored at off, as its three fields. *)
F32At(buf, off) ==
    [sign |-> buf[off + 4] \div 128,
     exp |-> (buf[off + 4] % 128) * 2 + (buf[off + 3] \div 128),
     frac |-> (buf[off + 3] % 128) * 65536 + buf[off + 2] * 256 + buf[off + 1]]

F32x3At(buf, off) == <<F32At(buf, off), F32At(buf, off + 4), F32At(buf, off + 8)>>

PadOf(n) == (4 - (n % 4)) % 4

(* One panel read at off: its fields, where its vertex array starts and   *)
(* where the panel ends; ok is FALSE when the buffer ends too early.      *)
ReadPanel(buf, off) ==
    IF off + 20 > Len(buf) THEN [ok |-> FALSE]
    ELSE LET idLength == U16At(buf, off)
             vertexCount == U16At(buf, off + 2)
             hasEndpoints == buf[off + 17]
             idAt == off + 20 + (IF hasEndpoints = 1 THEN 24 ELSE 0)
             vertexAt == idAt + idLength + PadOf(idLength)
             end == vertexAt + 12 * vertexCount
         IN  IF end > Len(buf) THEN [ok |-> FALSE]
             ELSE [ok |-> TRUE, idLength |-> idLength, vertexCount |-> vertexCount,
                   color |-> F32x3At(buf, off + 4),
                   hasEndpoints |-> hasEndpoints,
                   reserved |-> SubSeq(buf, off + 18, off + 20),
                   startPoint |-> IF hasEndpoints = 1
                                  THEN F32x3At(buf, off + 20) ELSE <<>>,
                   endPoint |-> IF hasEndpoints = 1
                                THEN F32x3At(buf, off + 32) ELSE <<>>,
                   id |-> SubSeq(buf, idAt + 1, idAt + idLength),
                   padding |-> SubSeq(buf, idAt + idLength + 1, vertexAt),
                   vertices |-> [k \in 1..vertexCount |->
                                    F32x3At(buf, vertexAt + 12 * (k - 1))],
                   vertexAt |-> vertexAt, end |-> end]

(* count panels read one after the other from off. *)
RECURSIVE ReadPanels(_, _, _)
ReadPanels(buf, off, count) ==
    IF count = 0 THEN [ok |-> TRUE, panels |-> <<>>, end |-> off]
    ELSE LET p == ReadPanel(buf, off)
         IN  IF ~p.ok THEN [ok |-> FALSE, panels |-> <<>>, end |-> off]
             ELSE LET r == ReadPanels(buf, p.end, count - 1)
                  IN  [ok |-> r.ok, panels |-> <<p>> \o r.panels, end |-> r.end]

Decode(buf) ==
    IF Len(buf) < 16 THEN [ok |-> FALSE]
    ELSE LET r == ReadPanels(buf, 16, U32At(buf, 8))
         IN  [ok |-> r.ok, magic |-> SubSeq(buf, 1, 4), version |-> U32At(buf, 4),
              panelCount |-> U32At(buf, 8), totalVertexCount |-> U32At(buf, 12),
              panels |-> r.panels, end |-> r.end]

(* --------------------------- the inputs ------------------------------- *)

F(n) == Float(n, 1)

(* An element is the function from the attributes it has to their values. *)
ElemPlain == [id |-> Str(<<112, 49>>)]                                \* 'p1'
ElemColor ==
    [id |-> Str(<<112, 50>>),                                         \* 'p2'
     color |-> Str(<<35, 102, 102, 56, 56, 48, 48>>),                 \* '#ff8800'
     transform_point |-> [start |-> Ok(Tuple(<<F(3), Float(1, 2), F(-2)>>)),
                          end |-> Ok(Tuple(<<PyInt(4), Float(1, 2)>>))],
     rotation |-> Tuple(<<F(0), F(90), F(0)>>)]
ElemPartial ==
    [id |-> Str(<<112, 51>>),                                         \* 'p3'
     color |-> Str(<<>>),
     transform_point |-> [start |-> Ok(Tuple(<<F(1), F(1), F(1)>>)),
                          end |-> Ok(Tuple(<<F(2), None, F(1)>>))]]
ElemEmptyColor == [id |-> Str(<<112, 52>>), color |-> Str(<<>>)]      \* 'p4'
ElemShort == [id |-> Str(<<112, 53>>),                                \* 'p5'
              color |-> Str(<<35, 102, 102, 102>>)]                   \* '#fff'

Elements == {ElemPlain, ElemColor, ElemPartial, ElemShort}
ContextElements == {ElemPlain, ElemColor, ElemPartial}
PaletteElements == {ElemPlain, ElemEmptyColor}
MixedElements == {ElemPlain, ElemEmptyColor, ElemColor}

(* <<id, points, geoKey>> of a create_poly call. *)
PolyEmpty == <<Str(<<>>), <<>>, None>>
PolyBig == <<Str(<<233>>),                                            \* 'e-acute'
             <<Tuple(<<F(16777217), F(-2), Float(1, 2)>>)>>, None>>
PolyMixed == <<Str(<<97, 98, 99>>),                                   \* 'abc'
               <<Tuple(<<PyInt(1), PyInt(2)>>), Vec3(F(0), F(3), PyInt(1))>>,
               Str(<<103>>)>>                                         \* 'g'
PolyTri == <<Str(<<97>>),                                             \* 'a'
             <<Tuple(<<F(0), F(0), F(0)>>), Tuple(<<F(1), F(0), F(0)>>),
               Tuple(<<F(1), F(1), F(0)>>)>>, None>>
PolyInputs == {PolyEmpty, PolyBig, PolyMixed, PolyTri}

LineInputs == { <<Str(<<108, 49>>),                                   \* 'l1'
                  <<Tuple(<<F(0), F(0), F(0)>>), Tuple(<<F(1), F(1)>>)>>, None>> }

(* Ids of 65536 and of 65535 'a': one byte more than the idLength field  *)
(* holds, and the most it holds.                                         *)
PolyOversize == <<StrTimes(<<97>>, MaxU16 + 1), <<Tuple(<<F(0), F(0), F(0)>>)>>, None>>
PolyLargest == <<StrTimes(<<97>>, MaxU16), <<>>, None>>
OversizeInputs == {PolyOversize, PolyLargest, PolyTri}

(* create_poly / create_line calls whose second point does not resolve  *)
(* to three numbers: a None z, a str x, a None point, a one-item tuple,  *)
(* an object whose y is None; and one call whose points all resolve.     *)
PointOrigin == Tuple(<<F(0), F(0), F(0)>>)
BadZ == Tuple(<<PyInt(1), PyInt(2), None>>)
BadStr == Tuple(<<Str(<<97>>), F(0), F(0)>>)
BadShort == Tuple(<<PyInt(1)>>)
BadVec3 == Vec3(F(1), None, F(3))
BadPoints == {BadZ, BadStr, None, BadShort, BadVec3}
FailureInputs ==
    {<<Str(<<120>>), <<PointOrigin, p>>, None>> : p \in BadPoints}      \* 'x'
    \cup {PolyTri}

(* Raw timings: None, and for every set of stage names (the eleven the   *)
(* function reads and one it does not) a record per stage, each with its *)
(* own total_ms; one stage record without total_ms.                      *)
RawNames == {StageTable[i][2] : i \in 1..Len(StageTable)} \cup {"measure"}
StageRecord(name) ==
    [total_ms |-> IF name = "measure" THEN Float(199, 2)
                  ELSE Float(2 * (CHOOSE i \in 1..Len(StageTable) :
                                    StageTable[i][2] = name) + 1, 2),
     count |-> PyInt(1)]
TimingInputs ==
    {None, Dict([name \in {"parse"} |-> [count |-> PyInt(1)]])}
    \cup {Dict([name \in S |-> StageRecord(name)]) : S \in SUBSET RawNames}

MaxCalls == 3
MaxPreRender == 13
MaxPalettePolys == 1
MaxContextCalls == 4
MaxOversizeCalls == 3
MaxSnapshotCalls == 3
MaxRequestCalls == 3
MaxFailureCalls == 3
MaxExplicit == 2

(* ------------------------- the state machine -------------------------- *)

VARIABLES
    json,       \* the JSONRenderEngine of the request
    bin,        \* the BinaryRenderEngine driven by the same traversal
    preLog,     \* per pre_render call: what it was given and resolved
    polyLog,    \* per create_poly call: its arguments and its outcome
    lineLog,    \* per create_line call: its arguments and its outcome
    lastCall,   \* the name of the last call made
    result,     \* what the last call returned
    held,       \* a document of to_dict the caller has kept, as it was then
    requests,   \* two concurrent requests: the sinks and the calls of each
    profile_results   \* the raw timings handed to format_timings_for_web

vars == <<json, bin, preLog, polyLog, lineLog, lastCall, result,
          held, requests, profile_results>>

NCalls == Len(preLog) + Len(polyLog) + Len(lineLog)

Init ==
    /\ json = JSON_init
    /\ bin = Binary_init
    /\ preLog = <<>>
    /\ polyLog = <<>>
    /\ lineLog = <<>>
    /\ lastCall = "__init__"
    /\ result = None
    /\ held = None
    /\ requests = [r \in {1, 2} |->
                      [json |-> JSON_init, bin |-> Binary_init, calls |-> <<>>]]
    /\ profile_results = None

(* The element has transform_point and the endpoint computation fails:   *)
(* a call raises, or a returned value does not convert.                  *)
EndpointsFail(element) ==
    /\ "transform_point" \in DOMAIN element
    /\ \/ ~TransformStart(element).ok
       \/ ~TransformEnd(element).ok
       \/ ~XYZ(TransformStart(element).val).ok
       \/ ~XYZ(TransformEnd(element).val).ok

PreRender(element) ==
    /\ json' = JSON_pre_render(json, element)
    /\ bin' = Binary_pre_render(bin, element)
    /\ preLog' = Append(preLog,
           [explicit |-> HasColor(element),
            transform |-> "transform_point" \in DOMAIN element,
            failed |-> EndpointsFail(element),
            own |-> IF HasColor(element) THEN element.color ELSE None,
            jcolor |-> json'.panel_data.color,
            bcolor |-> bin'.panel_data.color])
    /\ lastCall' = "pre_render"
    /\ result' = None
    /\ UNCHANGED <<polyLog, lineLog, held, requests, profile_results>>

CreatePoly(id, points, geoKey) ==
    LET j == JSON_create_poly(json, id, points, geoKey)
        b == Binary_create_poly(bin, id, points, geoKey)
    IN  /\ json' = j[1]
        /\ bin' = b[1]
        /\ polyLog' = Append(polyLog,
               [id |-> id, points |-> points, geoKey |-> geoKey,
                owner |-> Len(preLog), jexc |-> j[2], bexc |-> b[2]])
        /\ lastCall' = "create_poly"
        /\ result' = None
        /\ UNCHANGED <<preLog, lineLog, held, requests, profile_results>>

CreateLine(id, points, geoKey) ==
    LET j == JSON_create_line(json, id, points, geoKey)
        b == Binary_create_line(bin, id, points, geoKey)
    IN  /\ json' = j[1]
        /\ bin' = b[1]
        /\ lineLog' = Append(lineLog,
               [id |-> id, points |-> points, geoKey |-> geoKey,
                jexc |-> j[2], bexc |-> b[2]])
        /\ lastCall' = "create_line"
        /\ result' = None
        /\ UNCHANGED <<preLog, polyLog, held, requests, profile_results>>

ToDict ==
    /\ result' = JSON_to_dict(json)
    /\ lastCall' = "JSON.to_dict"
    /\ UNCHANGED <<json, bin, preLog, polyLog, lineLog, held, requests, profile_results>>

(* to_bytes that hands its panels over and starts a new list. *)
ToBytes_draining ==
    /\ result' = Binary_to_bytes(bin)
    /\ bin' = [bin EXCEPT !.panels = <<>>]
    /\ lastCall' = "Binary.to_bytes"
    /\ UNCHANGED <<json, preLog, polyLog, lineLog, held, requests, profile_results>>

ToBytes ==
    /\ result' = Binary_to_bytes(bin)
    /\ lastCall' = "Binary.to_bytes"
    /\ UNCHANGED <<json, bin, preLog, polyLog, lineLog, held, requests, profile_results>>

(* The caller of to_dict keeps the document it was given (app.py puts it *)
(* into the response); `seen` is what the document showed at that time. *)
KeepDocument ==
    /\ lastCall = "JSON.to_dict"
    /\ held = None
    /\ held' = [doc |-> result, seen |-> JSON_view(json, result)]
    /\ UNCHANGED <<json, bin, preLog, polyLog, lineLog, lastCall, result,
                   requests, profile_results>>

FormatTimings ==
    /\ result' = format_timings_for_web(profile_results)
    /\ lastCall' = "format_timings_for_web"
    /\ UNCHANGED <<json, bin, preLog, polyLog, lineLog, held, requests,
                   profile_results>>

BinaryToDict ==
    /\ result' = Binary_to_dict(bin)
    /\ lastCall' = "Binary.to_dict"
    /\ UNCHANGED <<json, bin, preLog, polyLog, lineLog, held, requests, profile_results>>

(* pre_render with a palette cursor that all sinks of the process share. *)
RequestPreRender_shared(r, element) ==
    LET cursor == requests[1].json.color_index + requests[2].json.color_index
    IN  /\ requests' = [requests EXCEPT ![r] =
               [json |-> JSON_pre_render([@.json EXCEPT !.color_index = cursor], element),
                bin |-> Binary_pre_render([@.bin EXCEPT !.color_index = cursor], element),
                calls |-> Append(@.calls, [op |-> "pre_render", element |-> element])]]
        /\ UNCHANGED <<json, bin, preLog, polyLog, lineLog, lastCall, result,
                       held, profile_results>>

(* Request r: GXMLRender.render calls pre_render on the request's sink. *)
RequestPreRender(r, element) ==
    /\ requests' = [requests EXCEPT ![r] =
           [json |-> JSON_pre_render(@.json, element),
            bin |-> Binary_pre_render(@.bin, element),
            calls |-> Append(@.calls, [op |-> "pre_render", element |-> element])]]
    /\ UNCHANGED <<json, bin, preLog, polyLog, lineLog, lastCall, result,
                   held, profile_results>>

(* Request r: create_poly on the request's sink. *)
RequestCreatePoly(r, id, points, geoKey) ==
    /\ requests' = [requests EXCEPT ![r] =
           [json |-> JSON_create_poly(@.json, id, points, geoKey)[1],
            bin |-> Binary_create_poly(@.bin, id, points, geoKey)[1],
            calls |-> Append(@.calls, [op |-> "create_poly", id |-> id,
                                       points |-> points, geoKey |-> geoKey])]]
    /\ UNCHANGED <<json, bin, preLog, polyLog, lineLog, lastCall, result,
                   held, profile_results>>

(* A request's raw timings, whatever the profiler recorded. *)
InitTimings ==
    /\ json = JSON_init
    /\ bin = Binary_init
    /\ preLog = <<>>
    /\ polyLog = <<>>
    /\ lineLog = <<>>
    /\ lastCall = "__init__"
    /\ result = None
    /\ held = None
    /\ requests = [r \in {1, 2} |->
                      [json |-> JSON_init, bin |-> Binary_init, calls |-> <<>>]]
    /\ profile_results \in TimingInputs

NextTimings == FormatTimings

SpecTimings == InitTimings /\ [][NextTimings]_vars

Next ==
    \/ (NCalls < MaxCalls /\ \E e \in Elements : PreRender(e))
    \/ (NCalls < MaxCalls /\ \E p \in PolyInputs : CreatePoly(p[1], p[2], p[3]))
    \/ (NCalls < MaxCalls /\ \E l \in LineInputs : CreateLine(l[1], l[2], l[3]))
    \/ ToDict
    \/ ToBytes
    \/ BinaryToDict

Spec == Init /\ [][Next]_vars

(* Elements without an explicit colour only, and many of them: the      *)
(* palette cursor goes once around.                                     *)
NextPalette ==
    \/ (Len(preLog) < MaxPreRender /\ \E e \in PaletteElements : PreRender(e))
    \/ (Len(polyLog) < MaxPalettePolys /\ CreatePoly(PolyTri[1], PolyTri[2], PolyTri[3]))

SpecPalette == Init /\ [][NextPalette]_vars

(* One element after the other, each with its polygons and lines. *)
NextContext ==
    \/ (NCalls < MaxContextCalls /\ \E e \in ContextElements : PreRender(e))
    \/ (NCalls < MaxContextCalls
        /\ \E p \in {PolyTri, PolyEmpty} : CreatePoly(p[1], p[2], p[3]))
    \/ (NCalls < MaxContextCalls /\ \E l \in LineInputs : CreateLine(l[1], l[2], l[3]))
    \/ ToBytes

SpecContext == Init /\ [][NextContext]_vars

(* Ids at and over the limit of the 16-bit idLength field. *)
NextOversize ==
    \/ (NCalls < MaxOversizeCalls /\ PreRender(ElemPlain))
    \/ (NCalls < MaxOversizeCalls
        /\ \E p \in OversizeInputs : CreatePoly(p[1], p[2], p[3]))
    \/ ToBytes

SpecOversize == Init /\ [][NextOversize]_vars

(* A caller that keeps a document and goes on using the sink. *)
NextSnapshot ==
    \/ (NCalls < MaxSnapshotCalls /\ \E e \in {ElemPlain, ElemColor} : PreRender(e))
    \/ (NCalls < MaxSnapshotCalls
        /\ \E p \in {PolyTri, PolyEmpty} : CreatePoly(p[1], p[2], p[3]))
    \/ (NCalls < MaxSnapshotCalls /\ \E l \in LineInputs : CreateLine(l[1], l[2], l[3]))
    \/ ToDict
    \/ KeepDocument

SpecSnapshot == Init /\ [][NextSnapshot]_vars

(* Two requests served at once: their calls interleave in any order. *)
NextRequests ==
    \E r \in {1, 2} :
       /\ Len(requests[r].calls) < MaxRequestCalls
       /\ \/ \E e \in {ElemPlain, ElemColor} : RequestPreRender(r, e)
          \/ RequestCreatePoly(r, PolyTri[1], PolyTri[2], PolyTri[3])

SpecRequests == Init /\ [][NextRequests]_vars

(* ------------------------------ claims -------------------------------- *)

Returned(log, field) == SelectSeq(log, LAMBDA c : c[field] = "")

(* The document to_dict returns, as its reader sees it now. *)
Document == JSON_view(json, JSON_to_dict(json))

C2_ColorDeterminism ==
    /\ Len(Palette) = 12
    /\ \A n \in 1..Len(preLog) :
          (\A j \in 1..n : ~preLog[j].explicit)
          => /\ preLog[n].jcolor = Palette[((n - 1) % 12) + 1]
             /\ preLog[n].bcolor = Palette[((n - 1) % 12) + 1]
             /\ (n = Len(preLog)
                 => /\ json.panel_data.color = Palette[((n - 1) % 12) + 1]
                    /\ bin.panel_data.color = Palette[((n - 1) % 12) + 1])

(* The thirteenth call without an explicit colour is back at palette[0]. *)
C2_Witness ==
    /\ Len(preLog) = 13
    /\ \A j \in 1..13 : ~preLog[j].explicit
    /\ json.panel_data.color = Palette[1]
    /\ bin.panel_data.color = Palette[1]

(* C3: every panel registered after a pre_render carries the colour that  *)
(* pre_render resolved, whatever was registered in between, and only      *)
(* pre_render calls without an explicit colour have moved the palette     *)
(* cursor (create_poly and create_line never do).                         *)
C3_ColorFixedAtPreRender ==
    LET jp == Returned(polyLog, "jexc")
        bp == Returned(polyLog, "bexc")
        taken == Cardinality({n \in 1..Len(preLog) : ~preLog[n].explicit})
    IN  /\ Len(json.panels) = Len(jp)
        /\ Len(bin.panels) = Len(bp)
        /\ \A i \in 1..Len(jp) :
              jp[i].owner > 0 => json.panels[i].color = preLog[jp[i].owner].jcolor
        /\ \A i \in 1..Len(bp) :
              bp[i].owner > 0
              => bin.panels[i].color_rgb = hex_to_rgb(preLog[bp[i].owner].bcolor).val
        /\ json.color_index = taken
        /\ bin.color_index = taken

(* Two polygons of one element with a line between them, after the cursor *)
(* has moved.                                                             *)
C3_Witness ==
    /\ Len(preLog) = 1 /\ ~preLog[1].explicit
    /\ Len(polyLog) = 2 /\ polyLog[1].owner = 1 /\ polyLog[2].owner = 1
    /\ Len(lineLog) = 1
    /\ lastCall = "create_poly"
    /\ json.panels[1].color = json.panels[2].color
    /\ bin.panels[1].color_rgb = bin.panels[2].color_rgb

(* What to_bytes returns in this state, and what a reader finds in it. *)
Buffer == Binary_to_bytes(bin)
Decoded == Decode(Buffer.val)

(* The RGB triple a JSON colour value denotes: '#rrggbb' is n/255 per     *)
(* channel, the short form '#rgb' repeats each digit, anything else is no *)
(* colour.                                                                *)
ColorOf(c) ==
    IF c.t # "str" THEN <<>>
    ELSE LET h == LStripHash(CodePoints(c))
         IN  IF Len(h) \in {3, 6} /\ \A k \in 1..Len(h) : HexVal(h[k]) >= 0
             THEN [k \in 1..3 |->
                      IF Len(h) = 6
                      THEN Norm(16 * HexVal(h[2 * k - 1]) + HexVal(h[2 * k]), 255)
                      ELSE Norm(17 * HexVal(h[k]), 255)]
             ELSE <<>>

Float32s(xs) == [k \in 1..Len(xs) |-> RN32(xs[k])]

(* C4: decoding to_bytes() yields, panel by panel in the same order, the  *)
(* id (as UTF-8 bytes), the vertex count, the colour and the points that  *)
(* the JSON engine's to_dict() reports for the same calls; colours and    *)
(* coordinates are compared after rounding the JSON value to float32.     *)
C4_RoundTripAgainstJSON ==
    Buffer.ok =>
      /\ Decoded.ok
      /\ Len(Decoded.panels) = Len(Document.panels)
      /\ \A i \in 1..Len(Document.panels) :
            LET j == Document.panels[i]
                b == Decoded.panels[i]
            IN  /\ b.id = Utf8Encode(CodePoints(j.id))
                /\ b.vertexCount = Len(j.points)
                /\ b.color = Float32s(ColorOf(j.color))
                /\ \A k \in 1..Len(j.points) : b.vertices[k] = Float32s(j.points[k])

(* to_bytes was the last call and returned a buffer (it did not raise). *)
GotBuffer == lastCall = "Binary.to_bytes" /\ result.ok

RECURSIVE Sum(_)
Sum(ns) == IF ns = <<>> THEN 0 ELSE Head(ns) + Sum(Tail(ns))

PanelSize(hasEndpoints, idLength, vertexCount) ==
    20 + 24 * hasEndpoints + idLength + ((4 - (idLength % 4)) % 4) + 12 * vertexCount

BothEndpoints(panel) ==
    IF Truthy(panel.start_point) /\ Truthy(panel.end_point) THEN 1 ELSE 0

(* C6: whenever ids and vertex counts fit their fields (to_bytes returns  *)
(* a buffer), the buffer is exactly 16 + the sum over the panels of 20 + 24*hasEndpoints +         *)
(* idLength + ((4 - idLength mod 4) mod 4) + 12*vertexCount bytes long,   *)
(* idLength being the UTF-8 length of the id and vertexCount the number   *)
(* of points: nothing trails the last panel and lines add nothing.        *)
C6_TotalLength ==
    GotBuffer =>
      LET polys == Returned(polyLog, "bexc")
          size(i) == PanelSize(BothEndpoints(bin.panels[i]),
                               Len(Utf8Encode(CodePoints(polys[i].id))), Len(polys[i].points))
          buf == result.val
          d == Decode(buf)
      IN  /\ Len(bin.panels) = Len(polys)
          /\ Len(buf) = 16 + Sum([i \in 1..Len(polys) |-> size(i)])
          /\ d.ok /\ d.end = Len(buf)
          /\ \A i \in 1..Len(polys) :
                /\ d.panels[i].idLength = Len(Utf8Encode(CodePoints(polys[i].id)))
                /\ d.panels[i].hasEndpoints = BothEndpoints(bin.panels[i])

(* A line, a panel with a two-byte id of one character and endpoints:     *)
(* 16 + (20 + 24 + 2 + 2 + 12) bytes.                                     *)
C6_Witness ==
    /\ Len(lineLog) = 1 /\ Len(polyLog) = 1
    /\ polyLog[1].id = PolyBig[1]
    /\ BothEndpoints(bin.panels[1]) = 1
    /\ GotBuffer /\ Len(result.val) = 76

(* The buffer offset at which the p-th part starts. *)
OffsetOf(parts, p) == Sum([q \in 1..(p - 1) |-> Len(parts[q].bytes)])

(* C7: in every buffer to_bytes() returns, each panel's vertex array      *)
(* (what follows its id and padding) starts at a byte offset that is a    *)
(* multiple of 4, whatever precedes it.                                   *)
C7_Alignment ==
    GotBuffer =>
      LET parts == Binary_parts(bin).val
      IN  /\ result.val = JoinParts(parts)
          /\ Cardinality({p \in 1..Len(parts) : parts[p].part = "vertices_packed"})
               = Len(bin.panels)
          /\ \A p \in 1..Len(parts) :
                parts[p].part = "vertices_packed" => OffsetOf(parts, p) % 4 = 0

(* A panel with endpoints and a one-byte id, then one with a two-byte id: *)
(* the second vertex array starts at 16 + 84 + 48 = 148.                  *)
C7_Witness ==
    /\ Len(bin.panels) = 2
    /\ BothEndpoints(bin.panels[1]) = 1
    /\ Len(Utf8Encode(CodePoints(bin.panels[1].panel_id))) = 1
    /\ Len(Utf8Encode(CodePoints(bin.panels[2].panel_id))) = 2
    /\ GotBuffer
    /\ LET parts == Binary_parts(bin).val IN OffsetOf(parts, Len(parts)) = 148

(* The UTF-8 length of the i-th panel's id exceeds the idLength field. *)
Oversized(i) == Len(Utf8Encode(CodePoints(bin.panels[i].panel_id))) > MaxU16

(* The exception names the i-th panel, by its index or by its id, in an  *)
(* attribute of its own or as one of its arguments.                      *)
Identifies(exc, i) ==
    \/ "panel" \in DOMAIN exc /\ exc.panel = i - 1
    \/ "panel_id" \in DOMAIN exc /\ exc.panel_id = bin.panels[i].panel_id
    \/ \E a \in 1..Len(exc.args) : exc.args[a] = ToString(i - 1)

(* C8: when a panel's id is longer than 65535 UTF-8 bytes, to_bytes()     *)
(* returns no buffer but raises an error that identifies the offending    *)
(* panel or id; no idLength is ever written truncated or wrapped.         *)
C8_OversizedId ==
    lastCall = "Binary.to_bytes" =>
      /\ (\E i \in 1..Len(bin.panels) : Oversized(i))
         => /\ ~result.ok
            /\ \E i \in 1..Len(bin.panels) : Oversized(i) /\ Identifies(result.exc, i)
      /\ result.ok
         => LET d == Decode(result.val)
            IN  \A i \in 1..Len(bin.panels) :
                   d.panels[i].idLength = Len(Utf8Encode(CodePoints(bin.panels[i].panel_id)))

(* C9: a panel's hasEndpoints byte is 1 exactly when both its startPoint  *)
(* and its endPoint are set, the 24 endpoint bytes are written exactly    *)
(* when the byte is 1, and a panel whose element has no transform_point   *)
(* gets 0 and no endpoint bytes, whatever the element before it had.      *)
C9_HasEndpoints ==
    GotBuffer =>
      LET polys == Returned(polyLog, "bexc")
          d == Decode(result.val)
      IN  /\ d.ok /\ d.end = Len(result.val)
          /\ Len(d.panels) = Len(bin.panels)
          /\ \A i \in 1..Len(bin.panels) :
                LET parts == PanelParts(bin.panels[i]).val
                    written == {p \in 1..Len(parts) : parts[p].part = "endpoints"}
                    byte == parts[1].bytes[17]
                IN  /\ byte \in {0, 1}
                    /\ byte = d.panels[i].hasEndpoints
                    /\ byte = 1 <=> (bin.panels[i].start_point # None
                                     /\ bin.panels[i].end_point # None)
                    /\ Sum([p \in 1..Len(parts) |->
                               IF p \in written THEN Len(parts[p].bytes) ELSE 0])
                         = IF byte = 1 THEN 24 ELSE 0
                    /\ (polys[i].owner = 0 \/ ~preLog[polys[i].owner].transform)
                       => byte = 0 /\ written = {}

(* An element with endpoints and its panel, then an element without       *)
(* transform_point and its panel: 1 and 24 bytes, then 0 and none.        *)
C9_Witness ==
    /\ GotBuffer
    /\ Len(preLog) = 2 /\ preLog[1].transform /\ ~preLog[2].transform
    /\ Len(polyLog) = 2 /\ polyLog[1].owner = 1 /\ polyLog[2].owner = 2
    /\ LET d == Decode(result.val)
       IN  /\ d.panels[1].hasEndpoints = 1
           /\ d.panels[2].hasEndpoints = 0
           /\ Len(result.val) = 16 + (20 + 24 + 4 + 36) + (20 + 4 + 36)

Serializers == {"JSON.to_dict", "Binary.to_bytes", "Binary.to_dict"}

(* C10: to_dict() and to_bytes() leave the panel list, the line list, the *)
(* current element context and the palette cursor of both engines as they *)
(* were, and a serialization repeated on the same state returns what the  *)
(* one before it returned.                                                *)
C10_SerializationIsPure ==
    [][lastCall' \in Serializers
       => /\ json' = json
          /\ bin' = bin
          /\ (lastCall = lastCall'
              => /\ result' = result
                 /\ (lastCall' = "JSON.to_dict"
                     => JSON_view(json', result') = JSON_view(json, result)))]_vars

(* to_bytes has just returned a buffer holding the two panels of an       *)
(* element, and the engines still hold the element's context, the cursor  *)
(* and both panels.                                                       *)
C10_Witness ==
    /\ GotBuffer
    /\ Len(preLog) = 1 /\ ~preLog[1].explicit
    /\ Len(bin.panels) = 2 /\ Len(json.panels) = 2
    /\ bin.color_index = 1 /\ json.color_index = 1
    /\ bin.panel_data.color = Palette[1]
    /\ U32At(result.val, 8) = 2

(* C11: a document to_dict() returned is a snapshot: whatever is called   *)
(* on the sink afterwards, the document still shows the panels and lines  *)
(* it showed when it was returned.                                        *)
C11_DocumentIsSnapshot ==
    held # None => JSON_view(json, held.doc) = held.seen

(* The sinks of a request whose calls run alone, on fresh engines. *)
RECURSIVE RunAlone(_)
RunAlone(calls) ==
    IF calls = <<>> THEN [json |-> JSON_init, bin |-> Binary_init]
    ELSE LET before == RunAlone(SubSeq(calls, 1, Len(calls) - 1))
             c == calls[Len(calls)]
         IN  IF c.op = "pre_render"
             THEN [json |-> JSON_pre_render(before.json, c.element),
                   bin |-> Binary_pre_render(before.bin, c.element)]
             ELSE [json |-> JSON_create_poly(before.json, c.id, c.points, c.geoKey)[1],
                   bin |-> Binary_create_poly(before.bin, c.id, c.points, c.geoKey)[1]]

(* C12: under every interleaving of the pre_render / create_poly calls of *)
(* two requests, each request's sinks (palette cursor, current colour,    *)
(* panel list) are what the request's own calls produce when run alone.   *)
C12_NoSharedState ==
    \A r \in {1, 2} :
       LET alone == RunAlone(requests[r].calls)
       IN  /\ requests[r].json = alone.json
           /\ requests[r].bin = alone.bin

(* Both requests have taken two palette colours and registered a panel:   *)
(* each is at cursor 2 with the second palette colour.                    *)
C12_Witness ==
    \A r \in {1, 2} :
       /\ Len(requests[r].calls) = 3
       /\ requests[r].json.color_index = 2
       /\ requests[r].bin.color_index = 2
       /\ requests[r].json.panel_data.color = Palette[2]
       /\ Len(requests[r].json.panels) = 1
       /\ requests[r].json.panels[1].color = Palette[2]

(* The least and the greatest of a non-empty set of floats. *)
MinOf(S) == CHOOSE m \in S : \A x \in S : ~FloatLT(x, m)
MaxOf(S) == CHOOSE m \in S : \A x \in S : ~FloatLT(m, x)

(* C13: the panel a create_poly call appends to the JSON sink has         *)
(* position (min+max)/2 and size max-min per axis over the points of that *)
(* call alone; a call with no points succeeds and appends a panel with no *)
(* points and position = size = (0, 0, 0).                                *)
C13_BoundingBox ==
    /\ Len(json.panels) = Len(polyLog)
    /\ \A n \in 1..Len(polyLog) :
          LET panel == json.panels[n]
              pts == NormalizePoints(polyLog[n].points).val
              axis(i) == {pts[k][i] : k \in 1..Len(pts)}
          IN  /\ polyLog[n].jexc = ""
              /\ panel.points = pts
              /\ IF pts = <<>>
                 THEN /\ panel.position = <<PyInt(0), PyInt(0), PyInt(0)>>
                      /\ panel.size = <<PyInt(0), PyInt(0), PyInt(0)>>
                 ELSE \A i \in 1..3 :
                        /\ panel.position[i]
                             = FloatHalf(FloatAdd(MinOf(axis(i)), MaxOf(axis(i))))
                        /\ panel.size[i] = FloatSub(MaxOf(axis(i)), MinOf(axis(i)))

(* A triangle, then a one-point polygon far from it, then an empty one:   *)
(* the second box is the point itself, the third is the degenerate panel. *)
C13_Witness ==
    /\ Len(json.panels) = 3
    /\ polyLog[1].points = PolyTri[2]
    /\ polyLog[2].points = PolyBig[2]
    /\ polyLog[3].points = <<>>
    /\ json.panels[1].position = <<Float(1, 2), Float(1, 2), F(0)>>
    /\ json.panels[1].size = <<F(1), F(1), F(0)>>
    /\ json.panels[2].position = <<F(16777217), F(-2), Float(1, 2)>>
    /\ json.panels[2].size = <<F(0), F(0), F(0)>>
    /\ json.panels[3].size = <<PyInt(0), PyInt(0), PyInt(0)>>

FlatKeys ==
    {"parse", "measure", "prelayout", "layout", "postlayout", "render",
     "intersection", "face", "geometry", "fastmesh", "serialize"}

(* The raw stage each flat key stands for. *)
StageOf(key) ==
    CASE key = "measure" -> "measure_pass"
      [] key = "prelayout" -> "pre_layout_pass"
      [] key = "layout" -> "layout_pass"
      [] key = "postlayout" -> "post_layout_pass"
      [] key = "intersection" -> "intersection_solver"
      [] key = "face" -> "face_solver"
      [] key = "geometry" -> "geometry_builder"
      [] key = "fastmesh" -> "fast_mesh_builder"
      [] OTHER -> key

(* C14: format_timings_for_web returns an empty mapping for None and for  *)
(* an empty mapping; for a non-empty raw mapping it returns exactly the   *)
(* eleven flat keys, each the total_ms of its own stage or 0.0 when that  *)
(* stage is missing, and a markers key holding the raw mapping itself.    *)
C14_FormatTimings ==
    lastCall = "format_timings_for_web" =>
      LET raw == profile_results
          out == result.items
      IN  IF raw = None \/ raw = Dict(EmptyDict)
          THEN DOMAIN out = {}
          ELSE /\ DOMAIN out = FlatKeys \cup {"markers"}
               /\ out["markers"] = raw
               /\ \A key \in FlatKeys :
                     out[key] = IF StageOf(key) \in DOMAIN raw.items
                                   /\ "total_ms" \in DOMAIN raw.items[StageOf(key)]
                                THEN raw.items[StageOf(key)].total_ms
                                ELSE Zero

(* The layout and face stages and a name that is no stage: two flat keys  *)
(* carry their stages' times, the nine others are 0.0.                    *)
C14_Witness ==
    /\ lastCall = "format_timings_for_web"
    /\ profile_results # None
    /\ DOMAIN profile_results.items = {"layout_pass", "face_solver", "measure"}
    /\ result.items["layout"] = profile_results.items["layout_pass"].total_ms
    /\ result.items["face"] = profile_results.items["face_solver"].total_ms
    /\ result.items["layout"] # result.items["face"]
    /\ result.items["measure"] = Zero
    /\ Cardinality({key \in FlatKeys : result.items[key] = Zero}) = 9

(* C15: when the endpoint computation of an element with transform_point  *)
(* fails, every panel registered under that element has neither           *)
(* startPoint nor endPoint, in the JSON sink and in the binary sink.      *)
C15_EndpointFailure ==
    LET polys == Returned(polyLog, "jexc")
    IN  \A i \in 1..Len(polys) :
           (polys[i].owner > 0 /\ preLog[polys[i].owner].failed)
           => /\ json.panels[i].startPoint = None
              /\ json.panels[i].endPoint = None
              /\ bin.panels[i].start_point = None
              /\ bin.panels[i].end_point = None

(* ------------------------- failing points ----------------------------- *)

NextFailure ==
    /\ NCalls < MaxFailureCalls
    /\ \/ \E c \in FailureInputs : CreatePoly(c[1], c[2], c[3])
       \/ \E c \in FailureInputs : CreateLine(c[1], c[2], c[3])

SpecFailure == Init /\ [][NextFailure]_vars

Numeric(v) == v.t \in {"float", "int"}

(* The point resolves to three numbers: a tuple or list of two or three  *)
(* numbers (a missing z is 0.0), or an object with numeric x, y and z.   *)
Resolvable(p) ==
    \/ /\ p.t \in {"tuple", "list"}
       /\ Len(p.items) \in {2, 3}
       /\ \A i \in 1..Len(p.items) : Numeric(p.items[i])
    \/ /\ p.t = "Vec3"
       /\ Numeric(p.x) /\ Numeric(p.y) /\ Numeric(p.z)

AllResolvable(points) == \A i \in 1..Len(points) : Resolvable(points[i])

Resolved(log) == SelectSeq(log, LAMBDA c : AllResolvable(c.points))

(* C16: a create_poly or create_line call with a point that does not     *)
(* resolve to three numbers raises, and leaves the panel list and the    *)
(* line list as they were: the lists hold the calls whose points all     *)
(* resolve, and nothing else.                                            *)
C16_HardFailure ==
    /\ \A i \in 1..Len(polyLog) :
          ~AllResolvable(polyLog[i].points)
          => polyLog[i].jexc # "" /\ polyLog[i].bexc # ""
    /\ \A i \in 1..Len(lineLog) :
          ~AllResolvable(lineLog[i].points) => lineLog[i].jexc # ""
    /\ Len(json.panels) = Len(Resolved(polyLog))
    /\ Len(bin.panels) = Len(Resolved(polyLog))
    /\ Len(json.lines) = Len(Resolved(lineLog))

(* ---------------- explicit and palette colours mixed ------------------ *)

(* The pre_render calls so far that took a palette colour / had their own. *)
Taking(n) == {m \in 1..n : ~preLog[m].explicit}
Keeping(n) == {m \in 1..n : preLog[m].explicit}

(* Elements with and without a colour of their own in any order, and one *)
(* create_poly or create_line somewhere in between.                      *)
NextMixed ==
    \/ \E e \in MixedElements :
          /\ IF HasColor(e)
             THEN Cardinality(Keeping(Len(preLog))) < MaxExplicit
             ELSE Cardinality(Taking(Len(preLog))) < MaxPreRender
          /\ PreRender(e)
    \/ (polyLog = <<>> /\ lineLog = <<>>
        /\ CreatePoly(PolyTri[1], PolyTri[2], PolyTri[3]))
    \/ (polyLog = <<>> /\ lineLog = <<>>
        /\ \E l \in LineInputs : CreateLine(l[1], l[2], l[3]))

SpecMixed == Init /\ [][NextMixed]_vars

(* C17: an element with an explicit non-empty colour gets that colour    *)
(* and leaves the cursor alone; the j-th element (from 0) without one    *)
(* gets palette[j mod 12], however many explicitly coloured elements,    *)
(* create_poly or create_line calls came in between; the cursor is the   *)
(* number of palette colours consumed, in both engines.                  *)
C17_CursorAdvancesOnConsumption ==
    /\ \A n \in 1..Len(preLog) :
          LET j == Cardinality(Taking(n - 1))
              c == IF preLog[n].explicit THEN preLog[n].own
                   ELSE Palette[(j % 12) + 1]
          IN  preLog[n].jcolor = c /\ preLog[n].bcolor = c
    /\ json.color_index = Cardinality(Taking(Len(preLog)))
    /\ bin.color_index = Cardinality(Taking(Len(preLog)))

(* Thirteen elements without a colour, two with their own among them and *)
(* a polygon registered on the way: the last one is back at palette[0].  *)
C17_Witness ==
    /\ Len(preLog) = 15
    /\ preLog[2].explicit /\ preLog[14].explicit
    /\ preLog[14].jcolor = ElemColor.color
    /\ ~preLog[15].explicit
    /\ preLog[15].jcolor = Palette[1] /\ preLog[15].bcolor = Palette[1]
    /\ json.color_index = 13 /\ bin.color_index = 13
    /\ Len(polyLog) = 1 /\ polyLog[1].owner \in 2..13
====
